---- MODULE Spec2Model ----
(***************************************************************************)
(* Model of the arXiv ingestion pipeline orchestrator                      *)
(* (src/src/services/metadata_fetcher.py, class MetadataFetcher) together  *)
(* with the Paper table it writes to (src/src/models/paper.py).            *)
(*                                                                         *)
(* The adapters the orchestrator calls (ArxivClient, PDFParserService,     *)
(* the SQLAlchemy session) are the environment: each call is an action     *)
(* whose outcome (a value, null, or an exception) is an input.  The         *)
(* report's processing_time (wall clock) and the log lines are left out.   *)
(***************************************************************************)
EXTENDS Integers, Sequences, FiniteSets, TLC

\* ------------------------------------------------------------------ bounds
\* fetch_papers returns at most MaxPapers records.
MaxPapers == 2

\* The concurrency limits tried range over 1..MaxPermits.
MaxPermits == 2

\* _process_pdfs_batch is given at most MaxBatch papers.
MaxBatch == 3

\* The max_text_size settings tried range over 0..MaxText.
MaxText == 2

\* Python's None / SQL NULL, and a present value: nullable things are
\* sequences of length 0 or 1.
Null == <<>>
Some(v) == <<v>>

\* ---------------------------------------------------------------- variables
VARIABLES
    \* fields of MetadataFetcher set by __init__
    max_concurrent_downloads,
    max_concurrent_parsing,
    opensearch_client,
    max_text_size,
    \* fetch_and_process_papers: position, arguments and locals
    pc,
    opts,
    papers,
    i,
    parsed_content,
    results,
    exc,
    \* the database: rows the session sees, rows committed, session health
    session,
    db,
    session_failed,
    \* the adapter calls of the current run, in call order
    trace,
    \* the previous run, kept while a run replays its adapter responses
    prev,
    \* _process_pdfs_batch: one pipeline task per paper, the two semaphores
    tasks,
    download_semaphore,
    parse_semaphore,
    batch_results,
    \* OpenSearch: the documents of the index by document id, and the last
    \* index_paper call (its argument, whether it reached the client, the
    \* client's answer, what it returned)
    os_index,
    os_last,
    \* _index_papers_to_opensearch and _store_papers_to_db: the parsed_papers
    \* argument (the identifiers it has an entry for) and the running count
    parsed_papers,
    count,
    \* PostgreSQLDatabase: whether startup has set session_factory, what was
    \* done with the session of the current get_session context, in order,
    \* and where the caller of get_session is
    session_factory,
    session_log,
    caller

ctor_vars == <<max_concurrent_downloads, max_concurrent_parsing, opensearch_client, max_text_size>>
run_vars == <<pc, opts, papers, i, parsed_content, results, exc>>
db_vars == <<session, db, session_failed>>
batch_vars == <<tasks, download_semaphore, parse_semaphore, batch_results>>
os_vars == <<os_index, os_last>>
helper_vars == <<parsed_papers, count>>
pg_vars == <<session_factory, session_log, caller>>
vars == <<ctor_vars, run_vars, db_vars, trace, prev, batch_vars, os_vars, helper_vars, pg_vars>>

\* ------------------------------------------------------------------ records
\* The ArxivPaper with identifier p as the source adapter yields it.  Odd
\* identifiers carry their date as a string, even ones as a datetime.
ArxivPaper(p) ==
    [arxiv_id |-> p,
     title |-> <<"title", p>>,
     authors |-> <<"authors", p>>,
     abstract |-> <<"abstract", p>>,
     categories |-> <<"categories", p>>,
     published_date |-> IF p % 2 = 1 THEN <<"str", p>> ELSE <<"datetime", p>>,
     pdf_url |-> <<"pdf_url", p>>]

\* The PdfContent the parser yields for the PDF of paper p: the raw text has
\* p characters, all different (character k is written k), the parser's
\* metadata dict is empty.
PdfContent(p) ==
    [raw_text |-> [k \in 1..p |-> k],
     sections |-> <<[title |-> <<"section", p>>, content |-> <<"body", p>>]>>,
     references |-> <<<<"ref", p>>>>,
     parser_used |-> Some("docling"),
     metadata |-> <<>>]

\* fetch_papers is called with sort_by="submittedDate", sort_order=
\* "descending": n records come back newest (highest identifier) first.
FetchedList(n) == [k \in 1..n |-> ArxivPaper(n + 1 - k)]

\* dateutil's parser.parse: a date string becomes a datetime.
DateParse(d) == <<"datetime", d[2]>>

\* ------------------------------------------------------------- Paper table
MetadataColumns ==
    {"arxiv_id", "title", "authors", "abstract", "categories",
     "published_date", "pdf_url"}

ContentColumns == {"raw_text", "sections", "references"}

Columns ==
    MetadataColumns \cup ContentColumns \cup
    {"parser_used", "parser_metadata", "pdf_processed", "pdf_processing_date"}

\* Column defaults of a freshly inserted row: pdf_processed defaults to
\* False, every other column left out of the insert is NULL.
ColumnDefault(c) == IF c = "pdf_processed" THEN Some(FALSE) ELSE Null

\* nullable=False columns.
NotNullColumns == MetadataColumns \cup {"pdf_processed"}

\* The constraints the table enforces when a transaction is flushed:
\* NOT NULL columns are set and arxiv_id is unique.
ConstraintsOk(rows) ==
    /\ \A k \in 1..Len(rows) : \A c \in NotNullColumns : rows[k][c] # Null
    /\ \A k, l \in 1..Len(rows) : rows[k]["arxiv_id"] = rows[l]["arxiv_id"] => k = l

\* PaperRepository.upsert: insert-or-update keyed by arxiv_id.  An existing
\* row is updated in place with the fields given, its other columns kept.
RowIndex(rows, key) == {k \in 1..Len(rows) : rows[k]["arxiv_id"] = key}

NewRow(data) == [c \in Columns |-> IF c \in DOMAIN data THEN data[c] ELSE ColumnDefault(c)]

MergeRow(row, data) == [c \in Columns |-> IF c \in DOMAIN data THEN data[c] ELSE row[c]]

Upsert(rows, data) ==
    IF RowIndex(rows, data["arxiv_id"]) = {}
    THEN Append(rows, NewRow(data))
    ELSE [k \in 1..Len(rows) |->
            IF rows[k]["arxiv_id"] = data["arxiv_id"] THEN MergeRow(rows[k], data) ELSE rows[k]]


\* ------------------------------------------------------- adapter responses
DownloadOutcomes == {"ok", "null", "raise"}
ParseOutcomes == {"ok", "null", "raise"}
StoreOutcomes == {"ok", "upsert_none", "upsert_raise", "commit_raise"}
IndexOutcomes == {"true", "false", "raise"}

\* One adapter call (or the log line opening a record) of the current run.
Event(op, id, out) == [op |-> op, id |-> id, out |-> out]

\* The environment answers a call: the answer is logged, and while a run
\* replays the previous one the answer is the one given then.
Responds(op, id, out) ==
    /\ prev # Null =>
         /\ Len(trace) < Len(prev[1].trace)
         /\ prev[1].trace[Len(trace) + 1] = Event(op, id, out)
    /\ trace' = Append(trace, Event(op, id, out))

\* ------------------------------------------------ fetch_and_process_papers
InitialResults ==
    [papers_fetched |-> 0,
     pdfs_downloaded |-> 0,
     pdfs_parsed |-> 0,
     papers_stored |-> 0,
     papers_indexed |-> 0,
     errors |-> <<>>]

Options ==
    [process_pdfs : BOOLEAN, store_to_db : BOOLEAN, db_session : BOOLEAN,
     index_to_opensearch : BOOLEAN]

Paper == papers[i]

Bump(r, counter) == [r EXCEPT ![counter] = @ + 1]

\* An entry of results["errors"]: the message prefix, the paper it names
\* (0 when it names none) and the exception text.
ErrorEntry(kind, id, e) == [kind |-> kind, id |-> id, err |-> e]

AddError(r, entry) == [r EXCEPT !.errors = Append(@, entry)]

\* The call: results is initialised, then fetch_papers is awaited.
BeginCall(o) ==
    /\ pc' = "fetch_papers"
    /\ opts' = o
    /\ results' = InitialResults
    /\ papers' = <<>>
    /\ i' = 0
    /\ parsed_content' = Null
    /\ exc' = Null
    /\ trace' = <<>>
    /\ UNCHANGED <<ctor_vars, pg_vars, helper_vars, os_vars, db_vars, batch_vars>>

StartRun(o) ==
    /\ pc = "idle"
    /\ BeginCall(o)
    /\ prev' = Null

\* The same call again, the adapters answering as they did in the run
\* before: that run's calls and the rows it left are kept for comparison.
Rerun ==
    /\ pc = "idle"
    /\ trace # <<>>
    /\ BeginCall(opts)
    /\ prev' = Some([trace |-> trace, db |-> db, results |-> results])

\* The caller has the report (or the exception); the fetcher can be called
\* again.
Finish ==
    /\ pc \in {"returned", "raised"}
    /\ pc' = "idle"
    /\ UNCHANGED <<ctor_vars, pg_vars, helper_vars, os_vars, opts, papers, i, parsed_content, results, exc, db_vars,
                   trace, prev, batch_vars>>

\* (variant) the outer handler swallows the error and returns the report.
OnPipelineError_Swallowed(e) ==
    /\ results' = AddError(results, ErrorEntry("Pipeline error", 0, e))
    /\ exc' = Null
    /\ pc' = "returned"

\* The outer handler: the error is noted in results, which is then dropped,
\* and PipelineException is raised from the cause.
OnPipelineError(e) ==
    /\ results' = AddError(results, ErrorEntry("Pipeline error", 0, e))
    /\ exc' = Some([type |-> "PipelineException", cause |-> e])
    /\ pc' = "raised"

\* (variant) no per-paper handler: the error reaches the outer handler.
OnPaperError_Propagates(e) == OnPipelineError(e)

\* (variant) the per-paper handler leaves the loop instead of continuing.
OnPaperError_Break(e) ==
    /\ results' = AddError(results, ErrorEntry("Error processing", Paper.arxiv_id, e))
    /\ exc' = exc
    /\ pc' = "returned"

\* (variant) the per-paper handler notes the error twice, once for the paper
\* and once for the pipeline.
OnPaperError_NotedTwice(e) ==
    /\ results' = AddError(AddError(results, ErrorEntry("Error processing", Paper.arxiv_id, e)),
                           ErrorEntry("Pipeline error", 0, e))
    /\ exc' = exc
    /\ pc' = "loop"

\* The per-paper handler: the error is recorded and the loop continues.
OnPaperError(e) ==
    /\ results' = AddError(results, ErrorEntry("Error processing", Paper.arxiv_id, e))
    /\ exc' = exc
    /\ pc' = "loop"

FetchPapersRaises ==
    /\ pc = "fetch_papers"
    /\ Responds("fetch_papers", 0, "raise")
    /\ OnPipelineError("ArxivAPIException")
    /\ UNCHANGED <<ctor_vars, pg_vars, helper_vars, os_vars, opts, papers, i, parsed_content, db_vars, prev, batch_vars>>

FetchPapersReturns(n) ==
    /\ pc = "fetch_papers"
    /\ Responds("fetch_papers", n, "ok")
    /\ papers' = FetchedList(n)
    /\ results' = [results EXCEPT !.papers_fetched = n]
    /\ pc' = IF n = 0 THEN "returned" ELSE "loop"
    /\ UNCHANGED <<ctor_vars, pg_vars, helper_vars, os_vars, opts, i, parsed_content, exc, db_vars, prev, batch_vars>>

\* (variant) the body does not test process_pdfs: 2a is always entered.
LoopNext_AlwaysDownloads ==
    /\ pc = "loop"
    /\ IF i < Len(papers)
       THEN /\ i' = i + 1
            /\ parsed_content' = Null
            /\ Responds("process", papers[i + 1].arxiv_id, "begin")
            /\ pc' = "download_pdf"
       ELSE /\ pc' = "returned"
            /\ UNCHANGED <<i, parsed_content, trace>>
    /\ UNCHANGED <<ctor_vars, pg_vars, helper_vars, os_vars, opts, papers, results, exc, db_vars, prev, batch_vars>>

\* The for statement: the next paper's body begins, or the report is returned.
LoopNext ==
    /\ pc = "loop"
    /\ IF i < Len(papers)
       THEN /\ i' = i + 1
            /\ parsed_content' = Null
            /\ Responds("process", papers[i + 1].arxiv_id, "begin")
            /\ pc' = IF opts.process_pdfs THEN "download_pdf" ELSE "store"
       ELSE /\ pc' = "returned"
            /\ UNCHANGED <<i, parsed_content, trace>>
    /\ UNCHANGED <<ctor_vars, pg_vars, helper_vars, os_vars, opts, papers, results, exc, db_vars, prev, batch_vars>>

\* (variant) a failed download abandons the record.
OnDownloadNull_SkipsRecord ==
    /\ pc' = "loop"
    /\ UNCHANGED <<results, exc>>

\* pdf_path is None: a warning is logged and the body goes on to 2c.
OnDownloadNull ==
    /\ pc' = "store"
    /\ UNCHANGED <<results, exc>>

\* 2a: download_pdf returns a path, returns None, or raises.
DownloadPdf(o) ==
    /\ pc = "download_pdf"
    /\ Responds("download_pdf", Paper.arxiv_id, o)
    /\ CASE o = "ok" ->
              /\ results' = Bump(results, "pdfs_downloaded")
              /\ pc' = "parse_pdf"
              /\ exc' = exc
         [] o = "null" -> OnDownloadNull
         [] o = "raise" -> OnPaperError("PDFDownloadException")
    /\ UNCHANGED <<ctor_vars, pg_vars, helper_vars, os_vars, opts, papers, i, parsed_content, db_vars, prev, batch_vars>>

\* 2b: parse_pdf returns content, returns None, or raises (caught, logged).
ParsePdf(o) ==
    /\ pc = "parse_pdf"
    /\ Responds("parse_pdf", Paper.arxiv_id, o)
    /\ IF o = "ok"
       THEN /\ results' = Bump(results, "pdfs_parsed")
            /\ parsed_content' = Some(PdfContent(Paper.arxiv_id))
       ELSE UNCHANGED <<results, parsed_content>>
    /\ pc' = "store"
    /\ UNCHANGED <<ctor_vars, pg_vars, helper_vars, os_vars, opts, papers, i, exc, db_vars, prev, batch_vars>>


\* ----------------------------------------------------- _store_single_paper
\* The base paper data: the seven metadata fields, the date parsed when it
\* came as a string.
BaseData(paper) ==
    LET published_date ==
            IF paper.published_date[1] = "str"
            THEN DateParse(paper.published_date)
            ELSE paper.published_date
    IN  [c \in MetadataColumns |->
            IF c = "published_date" THEN Some(published_date) ELSE Some(paper[c])]

\* (variant) the content update leaves pdf_processed out.
ContentData_NoFlag(pdf_content) ==
    IF pdf_content # Null
    THEN [raw_text |-> Some(pdf_content[1].raw_text),
          sections |-> Some(pdf_content[1].sections),
          references |-> Some(pdf_content[1].references),
          parser_used |-> pdf_content[1].parser_used,
          parser_metadata |-> Some(pdf_content[1].metadata),
          pdf_processing_date |-> Some("now")]
    ELSE [pdf_processed |-> Some(FALSE),
          parser_metadata |-> Some(<<"note", "PDF not processed">>)]

\* What is added to it: the parsed content with pdf_processed=True, or the
\* metadata-only marker with pdf_processed=False.
ContentData(pdf_content) ==
    IF pdf_content # Null
    THEN [raw_text |-> Some(pdf_content[1].raw_text),
          sections |-> Some(pdf_content[1].sections),
          references |-> Some(pdf_content[1].references),
          parser_used |-> pdf_content[1].parser_used,
          parser_metadata |-> Some(pdf_content[1].metadata),
          pdf_processed |-> Some(TRUE),
          pdf_processing_date |-> Some("now")]
    ELSE [pdf_processed |-> Some(FALSE),
          parser_metadata |-> Some(<<"note", "PDF not processed">>)]

\* (variant) paper_data without pdf_url.
PaperData_DropsPdfUrl(paper, pdf_content) ==
    ContentData(pdf_content) @@
        [c \in MetadataColumns \ {"pdf_url"} |-> BaseData(paper)[c]]

\* paper_data as _store_single_paper builds it.
PaperData(paper, pdf_content) == ContentData(pdf_content) @@ BaseData(paper)

\* (variant) the repository's create is called: always an insert.
StoreRows_Create(rows, data) == Append(rows, NewRow(data))

\* paper_repo.upsert(paper_create): what the session holds afterwards.
StoreRows(rows, data) == Upsert(rows, data)

\* (variant) no commit after the upsert: the committed rows stay as they are.
CommitRows_Deferred(rows) == db

\* db_session.commit() of _store_single_paper: the rows the session holds
\* become the committed rows.
CommitRows(rows) == rows

\* 2c: _store_single_paper under the caller's try.  o is what the database
\* does: the upsert raises, returns None, or returns the row, and the commit
\* then succeeds or raises; needs_rollback says whether a failure leaves the
\* session unusable until it is rolled back.  The caller counts the paper as
\* stored whenever no exception reached it.
StoreSinglePaper(o, needs_rollback) ==
    LET data == PaperData(Paper, parsed_content)
        written == IF o \in {"ok", "commit_raise"} THEN StoreRows(session, data) ELSE session
        raised ==
            \/ o \in {"upsert_raise", "commit_raise"}
            \/ o = "ok" /\ ~ConstraintsOk(written)
        e == CASE o = "upsert_raise" -> "upsert failed"
               [] o = "commit_raise" -> "commit failed"
               [] OTHER -> "IntegrityError"
    IN  /\ pc = "store"
        /\ opts.store_to_db /\ opts.db_session
        /\ session_failed => o = "upsert_raise"
        /\ needs_rollback => raised
        /\ Responds("store", Paper.arxiv_id, o)
        /\ IF raised
           THEN /\ results' = AddError(results, ErrorEntry("DB error for", Paper.arxiv_id, e))
                /\ session' = db
                /\ db' = db
                /\ session_failed' = (session_failed \/ needs_rollback)
           ELSE /\ results' = Bump(results, "papers_stored")
                /\ session' = written
                /\ db' = CommitRows(written)
                /\ session_failed' = session_failed
        /\ pc' = "index"
        /\ UNCHANGED <<ctor_vars, pg_vars, helper_vars, os_vars, opts, papers, i, parsed_content, exc, prev, batch_vars>>

\* store_to_db is off or no session was given: 2c is skipped.
SkipStore ==
    /\ pc = "store"
    /\ ~(opts.store_to_db /\ opts.db_session)
    /\ pc' = "index"
    /\ UNCHANGED <<ctor_vars, pg_vars, helper_vars, os_vars, opts, papers, i, parsed_content, results, exc, db_vars,
                   trace, prev, batch_vars>>

\* ------------------------------------------- OpenSearchClient.index_paper
\* What the OpenSearch client does with an index request: it stores the
\* document and answers "created" or "updated", answers something else, or
\* raises.
ClientBehaviours == {"indexed", "other", "raise"}

\* (variant) the answer of the client is not looked at.
IndexPaperOutcome_TrustsClient(index, paper_data, r) ==
    IF "arxiv_id" \notin DOMAIN paper_data
    THEN [index |-> index,
          last |-> [doc |-> paper_data, called |-> FALSE, result |-> "none",
                    returned |-> Some(FALSE)]]
    ELSE LET id == paper_data["arxiv_id"]
             body == paper_data @@ [created_at |-> "now", updated_at |-> "now"]
             result ==
                 CASE r = "indexed" -> IF id \in DOMAIN index THEN "updated" ELSE "created"
                   [] r = "other" -> "noop"
                   [] r = "raise" -> "none"
         IN  [index |-> IF r = "indexed" THEN (id :> body) @@ index ELSE index,
              last |-> [doc |-> body, called |-> TRUE, result |-> result,
                        returned |-> Some(r # "raise")]]

\* index_paper(paper_data) on an index holding `index`: the index afterwards
\* and the record of the call.  Without arxiv_id it returns False at once;
\* otherwise the timestamps are added when absent, the document is sent
\* under its arxiv_id as document id, and the answer decides the boolean; an
\* exception of the client is caught and gives False.
IndexPaperOutcome(index, paper_data, r) ==
    IF "arxiv_id" \notin DOMAIN paper_data
    THEN [index |-> index,
          last |-> [doc |-> paper_data, called |-> FALSE, result |-> "none",
                    returned |-> Some(FALSE)]]
    ELSE LET id == paper_data["arxiv_id"]
             body == paper_data @@ [created_at |-> "now", updated_at |-> "now"]
             result ==
                 CASE r = "indexed" -> IF id \in DOMAIN index THEN "updated" ELSE "created"
                   [] r = "other" -> "noop"
                   [] r = "raise" -> "none"
         IN  [index |-> IF r = "indexed" THEN (id :> body) @@ index ELSE index,
              last |-> [doc |-> body, called |-> TRUE, result |-> result,
                        returned |-> Some(result \in {"created", "updated"})]]

IndexPaper(paper_data, r) ==
    /\ os_index' = IndexPaperOutcome(os_index, paper_data, r).index
    /\ os_last' = Some(IndexPaperOutcome(os_index, paper_data, r).last)

\* s[:n] of Python for n >= 0.
Take(s, n) == SubSeq(s, 1, IF n < Len(s) THEN n ELSE Len(s))

\* (variant) the raw text is indexed whole.
OpenSearchData_NoTruncation(paper, pdf_content) ==
    [arxiv_id |-> paper.arxiv_id,
     title |-> paper.title,
     authors |-> <<"joined", paper.authors[2]>>,
     abstract |-> paper.abstract,
     categories |-> paper.categories,
     pdf_url |-> paper.pdf_url,
     published_date |->
        IF paper.published_date[1] = "datetime"
        THEN <<"isoformat", paper.published_date[2]>>
        ELSE paper.published_date,
     raw_text |->
        IF pdf_content # Null /\ pdf_content[1].raw_text # <<>>
        THEN pdf_content[1].raw_text
        ELSE <<>>]

\* opensearch_data as _index_single_paper and _index_papers_to_opensearch
\* build it: the authors joined into one string, the date as a string, the
\* raw text cut to max_text_size characters or "" without parsed content.
OpenSearchData(paper, pdf_content) ==
    [arxiv_id |-> paper.arxiv_id,
     title |-> paper.title,
     authors |-> <<"joined", paper.authors[2]>>,
     abstract |-> paper.abstract,
     categories |-> paper.categories,
     pdf_url |-> paper.pdf_url,
     published_date |->
        IF paper.published_date[1] = "datetime"
        THEN <<"isoformat", paper.published_date[2]>>
        ELSE paper.published_date,
     raw_text |->
        IF pdf_content # Null /\ pdf_content[1].raw_text # <<>>
        THEN Take(pdf_content[1].raw_text, max_text_size)
        ELSE <<>>]

\* What the client does when _index_single_paper comes back with True or
\* with False; when it raises, index_paper was not reached.
BehavioursFor(o) ==
    CASE o = "true" -> {"indexed"}
      [] o = "false" -> {"other", "raise"}
      [] o = "raise" -> {}

\* ----------------------------------------------------- _index_single_paper
\* (variant) indexing lags one record behind: the document indexed in the
\* body of a record is that of the record before it.
IndexSinglePaper_Lagging(o) ==
    /\ pc = "index"
    /\ opts.index_to_opensearch /\ opensearch_client
    /\ Responds("index_paper", papers[IF i > 1 THEN i - 1 ELSE i].arxiv_id, o)
    /\ IF o = "raise"
       THEN UNCHANGED os_vars
       ELSE \E r \in BehavioursFor(o) :
                IndexPaper(OpenSearchData(papers[IF i > 1 THEN i - 1 ELSE i], Null), r)
    /\ results' = IF o = "true" THEN Bump(results, "papers_indexed") ELSE results
    /\ pc' = "loop"
    /\ UNCHANGED <<ctor_vars, pg_vars, helper_vars, opts, papers, i, parsed_content, exc, db_vars, prev, batch_vars>>

\* 2d: the paper is indexed: its document is built and handed to
\* index_paper, unless building it raises; False and an exception both leave
\* the counters and the error list as they are.
IndexSinglePaper(o) ==
    /\ pc = "index"
    /\ opts.index_to_opensearch /\ opensearch_client
    /\ Responds("index_paper", Paper.arxiv_id, o)
    /\ IF o = "raise"
       THEN UNCHANGED os_vars
       ELSE \E r \in BehavioursFor(o) : IndexPaper(OpenSearchData(Paper, parsed_content), r)
    /\ results' = IF o = "true" THEN Bump(results, "papers_indexed") ELSE results
    /\ pc' = "loop"
    /\ UNCHANGED <<ctor_vars, pg_vars, helper_vars, opts, papers, i, parsed_content, exc, db_vars, prev, batch_vars>>

SkipIndex ==
    /\ pc = "index"
    /\ ~(opts.index_to_opensearch /\ opensearch_client)
    /\ pc' = "loop"
    /\ UNCHANGED <<ctor_vars, pg_vars, helper_vars, os_vars, opts, papers, i, parsed_content, results, exc, db_vars,
                   trace, prev, batch_vars>>

\* index_paper called on its own with any dict: the document of a paper
\* with or without parsed content, or such a document lacking arxiv_id.
WithoutId(d) == [f \in DOMAIN d \ {"arxiv_id"} |-> d[f]]

Documents ==
    UNION {{OpenSearchData(ArxivPaper(p), Null), OpenSearchData(ArxivPaper(p), Some(PdfContent(p)))} :
              p \in 1..MaxPapers}

IndexInputs == Documents \cup {WithoutId(d) : d \in Documents}

CallIndexPaper(paper_data, r) ==
    /\ pc = "idle"
    /\ IndexPaper(paper_data, r)
    /\ UNCHANGED <<ctor_vars, pg_vars, helper_vars, run_vars, db_vars, trace, prev, batch_vars>>

\* ---------------------------------------------- _index_papers_to_opensearch
\* The call, with the papers and the identifiers parsed_papers has an entry
\* for.
StartIndexPapers(n, parsed) ==
    /\ pc = "idle"
    /\ pc' = "index_papers"
    /\ papers' = FetchedList(n)
    /\ i' = 0
    /\ parsed_papers' = parsed
    /\ count' = 0
    /\ trace' = <<>>
    /\ UNCHANGED <<ctor_vars, pg_vars, os_vars, opts, parsed_content, results, exc, db_vars, prev,
                   batch_vars>>

\* The content parsed_papers holds for a paper, if any.
ParsedContentOf(paper) ==
    IF paper.arxiv_id \in parsed_papers THEN Some(PdfContent(paper.arxiv_id)) ELSE Null

\* One turn of its loop: the document is built and handed to index_paper,
\* True is counted; an exception (building the document, or no client to
\* call) is logged by the handler of the loop.
IndexPapersStep(o) ==
    /\ pc = "index_papers"
    /\ i < Len(papers)
    /\ ~opensearch_client => o = "raise"
    /\ i' = i + 1
    /\ Responds("index_paper", papers[i + 1].arxiv_id, o)
    /\ IF o = "raise"
       THEN UNCHANGED os_vars
       ELSE \E r \in BehavioursFor(o) :
                IndexPaper(OpenSearchData(papers[i + 1], ParsedContentOf(papers[i + 1])), r)
    /\ count' = IF o = "true" THEN count + 1 ELSE count
    /\ UNCHANGED <<ctor_vars, pg_vars, parsed_papers, pc, opts, papers, parsed_content, results, exc,
                   db_vars, prev, batch_vars>>

\* The loop is over: indexed_count is returned.
IndexPapersReturns ==
    /\ pc = "index_papers"
    /\ i = Len(papers)
    /\ pc' = "helper_returned"
    /\ UNCHANGED <<ctor_vars, pg_vars, helper_vars, os_vars, opts, papers, i, parsed_content, results,
                   exc, db_vars, trace, prev, batch_vars>>

\* ------------------------------------------------------ _store_papers_to_db
\* _serialize_parsed_content of a well-formed ParsedPaper, or the
\* metadata-only marker of the batch variant.
BatchContentData(pdf_content) ==
    IF pdf_content # Null
    THEN [raw_text |-> Some(pdf_content[1].raw_text),
          sections |-> Some(pdf_content[1].sections),
          references |-> Some(pdf_content[1].references),
          parser_used |-> pdf_content[1].parser_used,
          parser_metadata |-> Some(pdf_content[1].metadata),
          pdf_processed |-> Some(TRUE),
          pdf_processing_date |-> Some("now")]
    ELSE [pdf_processed |-> Some(FALSE),
          parser_metadata |-> Some(<<"note", "PDF processing not available">>)]

BatchPaperData(paper, pdf_content) == BatchContentData(pdf_content) @@ BaseData(paper)

BatchStoreOutcomes == {"ok", "upsert_none", "upsert_raise"}
CommitOutcomes == {"ok", "raise"}

\* The call, with the papers and the identifiers parsed_papers has an entry
\* for; the session is the caller's, with nothing pending.
StartStorePapers(n, parsed) ==
    /\ pc = "idle"
    /\ pc' = "store_papers"
    /\ papers' = FetchedList(n)
    /\ i' = 0
    /\ parsed_papers' = parsed
    /\ count' = 0
    /\ trace' = <<>>
    /\ UNCHANGED <<ctor_vars, pg_vars, os_vars, opts, parsed_content, results, exc, db_vars, prev,
                   batch_vars>>

\* One turn of its loop: paper_data is built and upserted; a stored record
\* is counted, None is not, an exception is logged by the handler of the
\* loop, which does not roll back.  needs_rollback says whether the failure
\* leaves the session unusable until it is rolled back.
StorePapersStep(o, needs_rollback) ==
    LET paper == papers[i + 1]
        data == BatchPaperData(paper, ParsedContentOf(paper))
        written == IF o = "ok" THEN StoreRows(session, data) ELSE session
        raised == o = "upsert_raise" \/ (o = "ok" /\ ~ConstraintsOk(written))
    IN  /\ pc = "store_papers"
        /\ i < Len(papers)
        /\ session_failed => o = "upsert_raise"
        /\ needs_rollback => raised
        /\ i' = i + 1
        /\ Responds("upsert", paper.arxiv_id, o)
        /\ IF raised
           THEN /\ session' = session
                /\ session_failed' = (session_failed \/ needs_rollback)
                /\ count' = count
           ELSE /\ session' = written
                /\ session_failed' = session_failed
                /\ count' = IF o = "ok" THEN count + 1 ELSE count
        /\ UNCHANGED <<ctor_vars, pg_vars, os_vars, parsed_papers, pc, opts, papers, parsed_content,
                       results, exc, db, prev, batch_vars>>

\* After the loop: the one commit.  When it raises the session is rolled
\* back and 0 is returned; otherwise stored_count is.
StorePapersCommit(o) ==
    /\ pc = "store_papers"
    /\ i = Len(papers)
    /\ session_failed => o = "raise"
    /\ Responds("commit", 0, o)
    /\ IF o = "ok"
       THEN /\ db' = CommitRows(session)
            /\ session' = session
            /\ count' = count
       ELSE /\ db' = db
            /\ session' = db
            /\ count' = 0
    /\ session_failed' = FALSE
    /\ pc' = "helper_returned"
    /\ UNCHANGED <<ctor_vars, pg_vars, os_vars, parsed_papers, opts, papers, i, parsed_content, results,
                   exc, prev, batch_vars>>

\* The caller has the count; the fetcher can be called again.
HelperFinish ==
    /\ pc = "helper_returned"
    /\ pc' = "idle"
    /\ UNCHANGED <<ctor_vars, pg_vars, helper_vars, os_vars, opts, papers, i, parsed_content, results,
                   exc, db_vars, trace, prev, batch_vars>>

\* ------------------------------------------- PostgreSQLDatabase.get_session
\* startup: the engine and session_factory are set.
Startup ==
    /\ caller = "out"
    /\ pc = "idle"
    /\ ~session_factory
    /\ session_factory' = TRUE
    /\ UNCHANGED <<ctor_vars, helper_vars, os_vars, run_vars, db_vars, trace, prev, batch_vars,
                   session_log, caller>>

\* get_session without a session_factory: RuntimeError, before any session
\* is made.
GetSessionUninitialized ==
    /\ caller = "out"
    /\ pc = "idle"
    /\ ~session_factory
    /\ exc' = Some([type |-> "RuntimeError", cause |-> "Database not initialized"])
    /\ caller' = "runtime_error"
    /\ UNCHANGED <<ctor_vars, helper_vars, os_vars, pc, opts, papers, i, parsed_content, results,
                   db_vars, trace, prev, batch_vars, session_factory, session_log>>

\* session_factory() and the yield: a new session, which sees the committed
\* rows and has nothing pending.
ContextEnter ==
    /\ session_factory
    /\ session_log' = <<"create">>
    /\ session' = db
    /\ session_failed' = FALSE
    /\ db' = db

\* (variant) close after the try statement instead of in its finally.
ContextExit_CloseAfterTry(raised) ==
    /\ session_log' = session_log \o (IF raised THEN <<"rollback">> ELSE <<"close">>)
    /\ session' = db
    /\ session_failed' = FALSE
    /\ db' = db

\* The generator is resumed at its yield, by the end of the with block or by
\* the exception that left it: except Exception rolls back and raises again,
\* finally closes.  rollback and close drop what was pending and leave the
\* committed rows alone.
ContextExit(raised) ==
    /\ session_log' = session_log \o (IF raised THEN <<"rollback", "close">> ELSE <<"close">>)
    /\ session' = db
    /\ session_failed' = FALSE
    /\ db' = db

\* run_paper_ingestion_pipeline: the with block is entered and
\* fetch_and_process_papers is called with store_to_db=True and the session.
EnterPipeline(process_pdfs) ==
    /\ caller = "out"
    /\ pc = "idle"
    /\ ContextEnter
    /\ caller' = "in_pipeline"
    /\ pc' = "fetch_papers"
    /\ opts' = [process_pdfs |-> process_pdfs, store_to_db |-> TRUE, db_session |-> TRUE,
               index_to_opensearch |-> FALSE]
    /\ results' = InitialResults
    /\ papers' = <<>>
    /\ i' = 0
    /\ parsed_content' = Null
    /\ exc' = Null
    /\ trace' = <<>>
    /\ UNCHANGED <<ctor_vars, helper_vars, os_vars, prev, batch_vars, session_factory>>

\* The report is returned out of the with block.
PipelineReturns ==
    /\ caller = "in_pipeline"
    /\ pc = "returned"
    /\ ContextExit(FALSE)
    /\ caller' = "exited"
    /\ pc' = "idle"
    /\ UNCHANGED <<ctor_vars, helper_vars, os_vars, opts, papers, i, parsed_content, results, exc,
                   trace, prev, batch_vars, session_factory>>

\* PipelineException leaves the with block.
PipelineRaises ==
    /\ caller = "in_pipeline"
    /\ pc = "raised"
    /\ ContextExit(TRUE)
    /\ caller' = "propagated"
    /\ pc' = "idle"
    /\ UNCHANGED <<ctor_vars, helper_vars, os_vars, opts, papers, i, parsed_content, results, exc,
                   trace, prev, batch_vars, session_factory>>

\* get_db_session: the with block is entered and the session is yielded to
\* a request handler.
EnterRequest ==
    /\ caller = "out"
    /\ pc = "idle"
    /\ ContextEnter
    /\ caller' = "in_request"
    /\ exc' = Null
    /\ trace' = <<>>
    /\ UNCHANGED <<ctor_vars, helper_vars, os_vars, pc, opts, papers, i, parsed_content, results,
                   prev, batch_vars, session_factory>>

\* The handler writes a paper through the session, and commits or not.
HandlerWrites(p, commit) ==
    LET written == StoreRows(session, PaperData(ArxivPaper(p), Null))
    IN  /\ caller = "in_request"
        /\ Len(trace) < MaxPapers
        /\ Responds("handler_write", p, IF commit THEN "commit" ELSE "pending")
        /\ session' = written
        /\ db' = IF commit THEN CommitRows(written) ELSE db
        /\ UNCHANGED <<ctor_vars, helper_vars, os_vars, run_vars, session_failed, prev, batch_vars,
                       pg_vars>>

\* The handler returns: the with block ends.
HandlerReturns ==
    /\ caller = "in_request"
    /\ ContextExit(FALSE)
    /\ caller' = "exited"
    /\ UNCHANGED <<ctor_vars, helper_vars, os_vars, run_vars, trace, prev, batch_vars,
                   session_factory>>

\* The handler raises: the exception is thrown in at the yield.
HandlerRaises ==
    /\ caller = "in_request"
    /\ ContextExit(TRUE)
    /\ caller' = "propagated"
    /\ exc' = Some([type |-> "HTTPException", cause |-> "handler"])
    /\ UNCHANGED <<ctor_vars, helper_vars, os_vars, pc, opts, papers, i, parsed_content, results,
                   trace, prev, batch_vars, session_factory>>

\* The caller that got RuntimeError gives up on this call; the database can
\* be started and asked again.
CallerFinish ==
    /\ caller = "runtime_error"
    /\ caller' = "out"
    /\ exc' = Null
    /\ UNCHANGED <<ctor_vars, helper_vars, os_vars, pc, opts, papers, i, parsed_content, results,
                   db_vars, trace, prev, batch_vars, session_factory, session_log>>

\* ------------------------------------------------------------ observations
\* What the adapters answered in the current run.
Outs(op, id) == {trace[j].out : j \in {j \in 1..Len(trace) : trace[j].op = op /\ trace[j].id = id}}

Calls(op, id) == Cardinality({j \in 1..Len(trace) : trace[j].op = op /\ trace[j].id = id})

CallsOf(op) == {j \in 1..Len(trace) : trace[j].op = op}

FetchedIds == {papers[k].arxiv_id : k \in 1..Len(papers)}

StoredIds(rows) == {rows[k]["arxiv_id"][1] : k \in 1..Len(rows)}

RowsOf(rows, id) == {rows[k] : k \in RowIndex(rows, Some(id))}

ErrorsNaming(id) == {j \in 1..Len(results.errors) : results.errors[j].id = id}

\* The run was given persistence: store_to_db with a session.
Persisting == opts.store_to_db /\ opts.db_session

\* ------------------------------------------------------ _process_pdfs_batch
\* A pipeline coroutine of the batch: where it is, its two locals, and what
\* gather collects from it once it is done.
NewTask ==
    [pc |-> "acquire_download", download_success |-> FALSE, parsed_paper |-> Null,
     raised |-> FALSE]

ParsedPaper(paper, pdf_content) ==
    [arxiv_metadata |->
        [title |-> paper.title, authors |-> paper.authors, abstract |-> paper.abstract,
         arxiv_id |-> paper.arxiv_id, categories |-> paper.categories,
         published_date |-> paper.published_date, pdf_url |-> paper.pdf_url],
     pdf_content |-> pdf_content]

InitialBatchResults ==
    [downloaded |-> 0,
     parsed |-> 0,
     parsed_papers |-> {},
     errors |-> <<>>,
     download_failures |-> <<>>,
     parse_failures |-> <<>>]

\* The call: the two semaphores are created from the configured limits and
\* one pipeline per paper is handed to gather.
StartBatch(n) ==
    /\ pc = "idle"
    /\ pc' = "gather"
    /\ papers' = FetchedList(n)
    /\ download_semaphore' = max_concurrent_downloads
    /\ parse_semaphore' = max_concurrent_parsing
    /\ tasks' = [k \in 1..n |-> NewTask]
    /\ batch_results' = Null
    /\ UNCHANGED <<ctor_vars, pg_vars, helper_vars, os_vars, opts, i, parsed_content, results, exc, db_vars, trace, prev>>

\* (variant) the download block is entered without waiting for a permit.
AcquireDownload_NoLimit(k) ==
    /\ pc = "gather"
    /\ tasks[k].pc = "acquire_download"
    /\ download_semaphore' = download_semaphore - 1
    /\ tasks' = [tasks EXCEPT ![k].pc = "download_pdf"]
    /\ UNCHANGED <<ctor_vars, pg_vars, helper_vars, os_vars, run_vars, db_vars, trace, prev, parse_semaphore, batch_results>>

\* async with download_semaphore: a permit is taken when one is free.
AcquireDownload(k) ==
    /\ pc = "gather"
    /\ tasks[k].pc = "acquire_download"
    /\ download_semaphore > 0
    /\ download_semaphore' = download_semaphore - 1
    /\ tasks' = [tasks EXCEPT ![k].pc = "download_pdf"]
    /\ UNCHANGED <<ctor_vars, pg_vars, helper_vars, os_vars, run_vars, db_vars, trace, prev, parse_semaphore, batch_results>>

\* (variant) the parse block is nested in the download block: on a path the
\* download permit is kept.
TaskDownloadPdf_KeepsPermit(k, o) ==
    /\ pc = "gather"
    /\ tasks[k].pc = "download_pdf"
    /\ download_semaphore' = IF o = "ok" THEN download_semaphore ELSE download_semaphore + 1
    /\ tasks' =
         CASE o = "ok" -> [tasks EXCEPT ![k].download_success = TRUE, ![k].pc = "acquire_parse"]
           [] o = "null" -> [tasks EXCEPT ![k].pc = "done"]
           [] o = "raise" -> [tasks EXCEPT ![k].raised = TRUE, ![k].pc = "done"]
    /\ UNCHANGED <<ctor_vars, pg_vars, helper_vars, os_vars, run_vars, db_vars, trace, prev, parse_semaphore, batch_results>>

\* Step 1 ends: download_pdf answers and the block is left, which returns
\* the permit on every path (a path, None with the early return, or an
\* exception, re-raised as MetadataFetchingException).
TaskDownloadPdf(k, o) ==
    /\ pc = "gather"
    /\ tasks[k].pc = "download_pdf"
    /\ download_semaphore' = download_semaphore + 1
    /\ tasks' =
         CASE o = "ok" -> [tasks EXCEPT ![k].download_success = TRUE, ![k].pc = "acquire_parse"]
           [] o = "null" -> [tasks EXCEPT ![k].pc = "done"]
           [] o = "raise" -> [tasks EXCEPT ![k].raised = TRUE, ![k].pc = "done"]
    /\ UNCHANGED <<ctor_vars, pg_vars, helper_vars, os_vars, run_vars, db_vars, trace, prev, parse_semaphore, batch_results>>

\* async with parse_semaphore.
AcquireParse(k) ==
    /\ pc = "gather"
    /\ tasks[k].pc = "acquire_parse"
    /\ parse_semaphore > 0
    /\ parse_semaphore' = parse_semaphore - 1
    /\ tasks' = [tasks EXCEPT ![k].pc = "parse_pdf"]
    /\ UNCHANGED <<ctor_vars, pg_vars, helper_vars, os_vars, run_vars, db_vars, trace, prev, download_semaphore, batch_results>>

\* (variant) the parse permit is taken and given back by hand, without a
\* finally: an exception of parse_pdf leaves it taken.
TaskParsePdf_LeaksOnRaise(k, o) ==
    /\ pc = "gather"
    /\ tasks[k].pc = "parse_pdf"
    /\ parse_semaphore' = IF o = "raise" THEN parse_semaphore ELSE parse_semaphore + 1
    /\ tasks' =
         CASE o = "ok" ->
                [tasks EXCEPT ![k].parsed_paper =
                                  Some(ParsedPaper(papers[k], PdfContent(papers[k].arxiv_id))),
                              ![k].pc = "done"]
           [] o = "null" -> [tasks EXCEPT ![k].pc = "done"]
           [] o = "raise" -> [tasks EXCEPT ![k].raised = TRUE, ![k].pc = "done"]
    /\ UNCHANGED <<ctor_vars, pg_vars, helper_vars, os_vars, run_vars, db_vars, trace, prev, download_semaphore, batch_results>>

\* Step 2 ends: parse_pdf answers, the permit is returned, the pipeline is
\* done.
TaskParsePdf(k, o) ==
    /\ pc = "gather"
    /\ tasks[k].pc = "parse_pdf"
    /\ parse_semaphore' = parse_semaphore + 1
    /\ tasks' =
         CASE o = "ok" ->
                [tasks EXCEPT ![k].parsed_paper =
                                  Some(ParsedPaper(papers[k], PdfContent(papers[k].arxiv_id))),
                              ![k].pc = "done"]
           [] o = "null" -> [tasks EXCEPT ![k].pc = "done"]
           [] o = "raise" -> [tasks EXCEPT ![k].raised = TRUE, ![k].pc = "done"]
    /\ UNCHANGED <<ctor_vars, pg_vars, helper_vars, os_vars, run_vars, db_vars, trace, prev, download_semaphore, batch_results>>

\* (variant) a pipeline's (False, None) is taken for an empty result and the
\* paper is passed over.
RECURSIVE Aggregate_DropsFailedDownload(_, _, _)
Aggregate_DropsFailedDownload(r, ps, ts) ==
    IF ps = <<>> THEN r
    ELSE LET id == Head(ps).arxiv_id
             t == Head(ts)
             r1 == CASE t.raised ->
                          [r EXCEPT !.errors =
                              Append(@, ErrorEntry("Pipeline error for", id, "MetadataFetchingException"))]
                     [] ~t.raised /\ t.download_success /\ t.parsed_paper # Null ->
                          [r EXCEPT !.downloaded = @ + 1, !.parsed = @ + 1,
                                    !.parsed_papers = @ \cup {id}]
                     [] ~t.raised /\ t.download_success /\ t.parsed_paper = Null ->
                          [r EXCEPT !.downloaded = @ + 1, !.parse_failures = Append(@, id)]
                     [] OTHER -> r
         IN  Aggregate_DropsFailedDownload(r1, Tail(ps), Tail(ts))

\* The loop over zip(papers, pipeline_results), one paper at a time.
RECURSIVE Aggregate(_, _, _)
Aggregate(r, ps, ts) ==
    IF ps = <<>> THEN r
    ELSE LET id == Head(ps).arxiv_id
             t == Head(ts)
             r1 == CASE t.raised ->
                          [r EXCEPT !.errors =
                              Append(@, ErrorEntry("Pipeline error for", id, "MetadataFetchingException"))]
                     [] ~t.raised /\ t.download_success /\ t.parsed_paper # Null ->
                          [r EXCEPT !.downloaded = @ + 1, !.parsed = @ + 1,
                                    !.parsed_papers = @ \cup {id}]
                     [] ~t.raised /\ t.download_success /\ t.parsed_paper = Null ->
                          [r EXCEPT !.downloaded = @ + 1, !.parse_failures = Append(@, id)]
                     [] OTHER -> [r EXCEPT !.download_failures = Append(@, id)]
         IN  Aggregate(r1, Tail(ps), Tail(ts))

\* (variant) gather without return_exceptions: the first exception of a
\* pipeline is raised to the caller, which has no handler.
GatherReturns_RaisesFirst ==
    /\ pc = "gather"
    /\ \/ /\ \E k \in DOMAIN tasks : tasks[k].raised
          /\ batch_results' = Null
          /\ pc' = "batch_raised"
       \/ /\ \A k \in DOMAIN tasks : tasks[k].pc = "done" /\ ~tasks[k].raised
          /\ batch_results' = Some(Aggregate(InitialBatchResults, papers, tasks))
          /\ pc' = "batch_returned"
    /\ UNCHANGED <<ctor_vars, pg_vars, helper_vars, os_vars, opts, papers, i, parsed_content, results, exc, db_vars,
                   trace, prev, tasks, download_semaphore, parse_semaphore>>

\* gather returns once every pipeline is done; the results are aggregated
\* and returned.
GatherReturns ==
    /\ pc = "gather"
    /\ \A k \in DOMAIN tasks : tasks[k].pc = "done"
    /\ batch_results' = Some(Aggregate(InitialBatchResults, papers, tasks))
    /\ pc' = "batch_returned"
    /\ UNCHANGED <<ctor_vars, pg_vars, helper_vars, os_vars, opts, papers, i, parsed_content, results, exc, db_vars,
                   trace, prev, tasks, download_semaphore, parse_semaphore>>

\* ------------------------------------------------------------ specification
\* After construction: the defaults of __init__, an empty papers table, no
\* call in progress.  The OpenSearch client is optional.
Init ==
    /\ max_concurrent_downloads = 5
    /\ max_concurrent_parsing = 3
    /\ opensearch_client \in BOOLEAN
    /\ max_text_size = 1000000
    /\ pc = "idle"
    /\ opts = [process_pdfs |-> TRUE, store_to_db |-> TRUE, db_session |-> FALSE,
               index_to_opensearch |-> FALSE]
    /\ papers = <<>>
    /\ i = 0
    /\ parsed_content = Null
    /\ results = InitialResults
    /\ exc = Null
    /\ session = <<>>
    /\ db = <<>>
    /\ session_failed = FALSE
    /\ trace = <<>>
    /\ prev = Null
    /\ tasks = <<>>
    /\ download_semaphore = 0
    /\ parse_semaphore = 0
    /\ batch_results = Null
    /\ os_index = <<>>
    /\ os_last = Null
    /\ parsed_papers = {}
    /\ count = 0
    /\ session_factory = FALSE
    /\ session_log = <<>>
    /\ caller = "out"

Next ==
    \/ \E o \in Options : StartRun(o)
    \/ FetchPapersRaises
    \/ \E n \in 0..MaxPapers : FetchPapersReturns(n)
    \/ LoopNext
    \/ \E o \in DownloadOutcomes : DownloadPdf(o)
    \/ \E o \in ParseOutcomes : ParsePdf(o)
    \/ \E o \in StoreOutcomes, f \in BOOLEAN : StoreSinglePaper(o, f)
    \/ SkipStore
    \/ \E o \in IndexOutcomes : IndexSinglePaper(o)
    \/ SkipIndex

Spec == Init /\ [][Next]_vars


\* Repeated calls against one database, persistence on and working, no
\* indexing: what a sequence of daily runs leaves in the papers table.
RunOptions ==
    {o \in Options : o.store_to_db /\ o.db_session /\ ~o.index_to_opensearch}

NextRuns ==
    \/ \E o \in RunOptions : StartRun(o)
    \/ Rerun
    \/ Finish
    \/ FetchPapersRaises
    \/ \E n \in 0..MaxPapers : FetchPapersReturns(n)
    \/ LoopNext
    \/ \E o \in DownloadOutcomes : DownloadPdf(o)
    \/ \E o \in ParseOutcomes : ParsePdf(o)
    \/ StoreSinglePaper("ok", FALSE)
    \/ SkipIndex

SpecRuns == Init /\ [][NextRuns]_vars

\* The download and parse stages under every pair of limits up to
\* MaxPermits: the concurrent batch of up to MaxBatch papers, and the
\* sequential run with content processing only.
InitLimits ==
    /\ max_concurrent_downloads \in 1..MaxPermits
    /\ max_concurrent_parsing \in 1..MaxPermits
    /\ opensearch_client = FALSE
    /\ max_text_size = 1000000
    /\ pc = "idle"
    /\ opts = [process_pdfs |-> TRUE, store_to_db |-> TRUE, db_session |-> FALSE,
               index_to_opensearch |-> FALSE]
    /\ papers = <<>>
    /\ i = 0
    /\ parsed_content = Null
    /\ results = InitialResults
    /\ exc = Null
    /\ session = <<>>
    /\ db = <<>>
    /\ session_failed = FALSE
    /\ trace = <<>>
    /\ prev = Null
    /\ tasks = <<>>
    /\ download_semaphore = 0
    /\ parse_semaphore = 0
    /\ batch_results = Null
    /\ os_index = <<>>
    /\ os_last = Null
    /\ parsed_papers = {}
    /\ count = 0
    /\ session_factory = FALSE
    /\ session_log = <<>>
    /\ caller = "out"

ContentOnlyOptions ==
    {o \in Options : o.process_pdfs /\ ~o.store_to_db /\ ~o.db_session /\ ~o.index_to_opensearch}

NextLimits ==
    \/ \E n \in 0..MaxBatch : StartBatch(n)
    \/ \E k \in DOMAIN tasks : AcquireDownload(k)
    \/ \E k \in DOMAIN tasks, o \in DownloadOutcomes : TaskDownloadPdf(k, o)
    \/ \E k \in DOMAIN tasks : AcquireParse(k)
    \/ \E k \in DOMAIN tasks, o \in ParseOutcomes : TaskParsePdf(k, o)
    \/ GatherReturns
    \/ \E o \in ContentOnlyOptions : StartRun(o)
    \/ FetchPapersRaises
    \/ \E n \in 0..MaxPapers : FetchPapersReturns(n)
    \/ LoopNext
    \/ \E o \in DownloadOutcomes : DownloadPdf(o)
    \/ \E o \in ParseOutcomes : ParsePdf(o)
    \/ SkipStore
    \/ SkipIndex

SpecLimits == InitLimits /\ [][NextLimits]_vars


\* The batch alone, with the scheduling of the event loop: gather has started
\* every pipeline, each adapter call that is awaited comes back, and a
\* coroutine that can run (a permit is free, or every pipeline is done) is
\* run.  Nothing is assumed about _process_pdfs_batch being called.
BatchStep ==
    \/ \E k \in DOMAIN tasks : AcquireDownload(k)
    \/ \E k \in DOMAIN tasks, o \in DownloadOutcomes : TaskDownloadPdf(k, o)
    \/ \E k \in DOMAIN tasks : AcquireParse(k)
    \/ \E k \in DOMAIN tasks, o \in ParseOutcomes : TaskParsePdf(k, o)
    \/ GatherReturns

NextBatch ==
    \/ \E n \in 0..MaxBatch : StartBatch(n)
    \/ BatchStep

SpecBatch == InitLimits /\ [][NextBatch]_vars /\ WF_vars(BatchStep)


\* The indexing path under every max_text_size up to MaxText:
\* _index_papers_to_opensearch and runs that index (SpecIndex), and
\* index_paper called on its own with any dict, again and again
\* (SpecIndexPaper).
InitIndex ==
    /\ max_concurrent_downloads = 5
    /\ max_concurrent_parsing = 3
    /\ opensearch_client \in BOOLEAN
    /\ max_text_size \in 0..MaxText
    /\ pc = "idle"
    /\ opts = [process_pdfs |-> TRUE, store_to_db |-> TRUE, db_session |-> FALSE,
               index_to_opensearch |-> FALSE]
    /\ papers = <<>>
    /\ i = 0
    /\ parsed_content = Null
    /\ results = InitialResults
    /\ exc = Null
    /\ session = <<>>
    /\ db = <<>>
    /\ session_failed = FALSE
    /\ trace = <<>>
    /\ prev = Null
    /\ tasks = <<>>
    /\ download_semaphore = 0
    /\ parse_semaphore = 0
    /\ batch_results = Null
    /\ os_index = <<>>
    /\ os_last = Null
    /\ parsed_papers = {}
    /\ count = 0
    /\ session_factory = FALSE
    /\ session_log = <<>>
    /\ caller = "out"

\* Runs that only index, with or without content processing.
IndexOnlyOptions ==
    {o \in Options : ~o.store_to_db /\ ~o.db_session /\ o.index_to_opensearch}

NextIndex ==
    \/ \E n \in 0..MaxPapers : \E parsed \in SUBSET (1..n) : StartIndexPapers(n, parsed)
    \/ \E o \in IndexOutcomes : IndexPapersStep(o)
    \/ IndexPapersReturns
    \/ \E o \in IndexOnlyOptions : StartRun(o)
    \/ FetchPapersRaises
    \/ \E n \in 0..MaxPapers : FetchPapersReturns(n)
    \/ LoopNext
    \/ \E o \in DownloadOutcomes : DownloadPdf(o)
    \/ \E o \in ParseOutcomes : ParsePdf(o)
    \/ SkipStore
    \/ \E o \in IndexOutcomes : IndexSinglePaper(o)
    \/ SkipIndex

SpecIndex == InitIndex /\ [][NextIndex]_vars

NextIndexPaper == \E d \in IndexInputs, r \in ClientBehaviours : CallIndexPaper(d, r)

SpecIndexPaper == InitIndex /\ [][NextIndexPaper]_vars


\* _store_papers_to_db called again and again on one session, starting from
\* an empty papers table.
NextStore ==
    \/ \E n \in 0..MaxPapers : \E parsed \in SUBSET (1..n) : StartStorePapers(n, parsed)
    \/ \E o \in BatchStoreOutcomes, needs_rollback \in BOOLEAN : StorePapersStep(o, needs_rollback)
    \/ \E o \in CommitOutcomes : StorePapersCommit(o)
    \/ HelperFinish

SpecStore == Init /\ [][NextStore]_vars

\* A caller of get_session on a database that is started or not: the
\* ingestion task, whose with block is a run of the fetcher, or the request
\* dependency, whose with block is a handler.
NextSession ==
    \/ Startup
    \/ GetSessionUninitialized
    \/ \E b \in BOOLEAN : EnterPipeline(b)
    \/ FetchPapersRaises
    \/ \E n \in 0..MaxPapers : FetchPapersReturns(n)
    \/ LoopNext
    \/ \E o \in DownloadOutcomes : DownloadPdf(o)
    \/ \E o \in ParseOutcomes : ParsePdf(o)
    \/ \E o \in StoreOutcomes, f \in BOOLEAN : StoreSinglePaper(o, f)
    \/ SkipIndex
    \/ PipelineReturns
    \/ PipelineRaises
    \/ EnterRequest
    \/ \E p \in 1..MaxPapers, commit \in BOOLEAN : HandlerWrites(p, commit)
    \/ HandlerReturns
    \/ HandlerRaises
    \/ CallerFinish

SpecSession == Init /\ [][NextSession]_vars

\* ------------------------------------------------------------------ claims

\* C1: if fetch_papers raises, the call returns no report: it raises
\* PipelineException carrying the cause, and no download_pdf, parse_pdf,
\* upsert/commit or index_paper call was made in that run.
C1_SourceFailureIsFatal ==
    (trace # <<>> /\ trace[1] = Event("fetch_papers", 0, "raise")) =>
        /\ pc = "raised"
        /\ exc = Some([type |-> "PipelineException", cause |-> "ArxivAPIException"])
        /\ Len(trace) = 1
        /\ results.papers_stored = 0 /\ results.papers_indexed = 0

C1_Witness ==
    /\ pc = "raised"
    /\ trace = <<Event("fetch_papers", 0, "raise")>>
    /\ opts.process_pdfs /\ Persisting /\ opts.index_to_opensearch /\ opensearch_client

\* C2: once fetch_papers has returned a list, the call never raises,
\* whatever download_pdf, parse_pdf, the database and index_paper do for each
\* record, and it is never stuck short of returning the report.
C2_DownstreamFailuresNeverRaise ==
    (trace # <<>> /\ trace[1].op = "fetch_papers" /\ trace[1].out = "ok") =>
        /\ pc # "raised"
        /\ exc = Null
        /\ pc = "returned" \/ ENABLED Next

C2_Witness ==
    /\ pc = "returned"
    /\ \E a, b \in FetchedIds :
        /\ "raise" \in Outs("download_pdf", a)
        /\ "raise" \in Outs("parse_pdf", b)
        /\ "commit_raise" \in Outs("store", b)
        /\ "raise" \in Outs("index_paper", b)

\* C3: with process_pdfs, store_to_db and a session, when download_pdf
\* returns None for exactly one record k and every other adapter call
\* succeeds, the report counts n fetched, n-1 downloaded, n-1 parsed and n
\* stored, record k is stored metadata-only and every other record is stored
\* with its parsed content.
OnlyDownloadFails(k) ==
    /\ Outs("download_pdf", k) = {"null"}
    /\ \A p \in FetchedIds \ {k} :
        /\ Outs("download_pdf", p) = {"ok"}
        /\ Outs("parse_pdf", p) = {"ok"}
    /\ \A j \in CallsOf("store") : trace[j].out = "ok"
    /\ \A j \in CallsOf("index_paper") : trace[j].out = "true"

StoredMetadataOnly(id) ==
    /\ Cardinality(RowsOf(db, id)) = 1
    /\ \A row \in RowsOf(db, id) :
        /\ row["pdf_processed"] = Some(FALSE)
        /\ \A c \in ContentColumns : row[c] = Null
        /\ \A c \in MetadataColumns \ {"published_date"} : row[c] = Some(ArxivPaper(id)[c])
        /\ row["published_date"] = Some(<<"datetime", id>>)

StoredWithContent(id) ==
    /\ Cardinality(RowsOf(db, id)) = 1
    /\ \A row \in RowsOf(db, id) :
        /\ row["pdf_processed"] = Some(TRUE)
        /\ row["raw_text"] = Some(PdfContent(id).raw_text)
        /\ row["sections"] = Some(PdfContent(id).sections)
        /\ row["references"] = Some(PdfContent(id).references)

C3_PartialFailureIsolation ==
    (pc = "returned" /\ opts.process_pdfs /\ Persisting) =>
        \A k \in FetchedIds :
            OnlyDownloadFails(k) =>
                /\ results.papers_fetched = Len(papers)
                /\ results.pdfs_downloaded = Len(papers) - 1
                /\ results.pdfs_parsed = Len(papers) - 1
                /\ results.papers_stored = Len(papers)
                /\ StoredMetadataOnly(k)
                /\ \A p \in FetchedIds \ {k} : StoredWithContent(p)

C3_Witness ==
    /\ pc = "returned" /\ opts.process_pdfs /\ Persisting
    /\ Len(papers) = MaxPapers
    /\ OnlyDownloadFails(papers[1].arxiv_id)
    /\ StoredMetadataOnly(papers[1].arxiv_id)
    /\ StoredWithContent(papers[MaxPapers].arxiv_id)

\* C4: when download_pdf returns None for a record, the returned report's
\* errors list holds exactly one entry for that failure, naming the record
\* (an entry of the persist stage for the same record does not count).
C4_DownloadFailureIsReported ==
    pc = "returned" =>
        \A p \in FetchedIds :
            "null" \in Outs("download_pdf", p) =>
                Cardinality({j \in ErrorsNaming(p) : results.errors[j].kind # "DB error for"}) = 1


\* C5: the download_pdf calls in flight never exceed max_concurrent_downloads
\* and the parse_pdf calls in flight never exceed max_concurrent_parsing, in
\* the batch under every interleaving of its pipelines and in the sequential
\* run.
DownloadsInFlight ==
    Cardinality({k \in DOMAIN tasks : tasks[k].pc = "download_pdf"})
        + (IF pc = "download_pdf" THEN 1 ELSE 0)

ParsesInFlight ==
    Cardinality({k \in DOMAIN tasks : tasks[k].pc = "parse_pdf"})
        + (IF pc = "parse_pdf" THEN 1 ELSE 0)

C5_ConcurrencyBounds ==
    /\ DownloadsInFlight <= max_concurrent_downloads
    /\ ParsesInFlight <= max_concurrent_parsing

\* Both pools full while pipelines wait for a permit of each.
C5_Witness ==
    /\ DownloadsInFlight = max_concurrent_downloads
    /\ ParsesInFlight = max_concurrent_parsing
    /\ \E k \in DOMAIN tasks : tasks[k].pc = "acquire_download"

\* C6: if parse_pdf fails for every record (None or an exception), then with
\* store_to_db, a session and a database that accepts every write, every
\* fetched record is committed with pdf_processed=False and its seven
\* metadata fields, and papers_stored equals papers_fetched.
ParseFailsForAll ==
    /\ papers # <<>>
    /\ \A p \in FetchedIds :
        /\ Outs("parse_pdf", p) # {}
        /\ Outs("parse_pdf", p) \subseteq {"null", "raise"}
    /\ \A j \in CallsOf("store") : trace[j].out = "ok"

C6_MetadataFirstDurability ==
    (pc = "returned" /\ Persisting /\ ParseFailsForAll) =>
        /\ \A p \in FetchedIds : StoredMetadataOnly(p)
        /\ results.papers_stored = results.papers_fetched
        /\ results.papers_fetched = Len(papers)

C6_Witness ==
    /\ pc = "returned" /\ Persisting /\ ParseFailsForAll
    /\ Len(papers) = MaxPapers
    /\ \E a, b \in FetchedIds : Outs("parse_pdf", a) = {"null"} /\ Outs("parse_pdf", b) = {"raise"}
    /\ \A p \in FetchedIds : StoredMetadataOnly(p)

\* C9: each record's upsert is committed on its own: at every point of a
\* run (any of which may be where the process dies) every record whose
\* persist stage succeeded has its row among the committed rows, and the
\* session holds nothing uncommitted while another stage runs.
C9_CommittedPerRecord ==
    /\ \A j \in CallsOf("store") :
        trace[j].out = "ok" => Cardinality(RowsOf(db, trace[j].id)) = 1
    /\ session = db

C9_Witness ==
    /\ pc = "download_pdf"
    /\ i = 2
    /\ "ok" \in Outs("store", papers[1].arxiv_id)
    /\ StoredIds(db) = {papers[1].arxiv_id}

\* C10: unless fetch_papers raises, when the report is returned every record
\* fetch_papers returned has been taken up exactly once, in order, with its
\* first applicable stage attempted, and no stage was run twice for a record,
\* whatever failed on other records.
C10_EveryRecordAttemptedOnce ==
    pc = "returned" =>
        /\ results.papers_fetched = Len(papers)
        /\ \A p \in FetchedIds :
            /\ Calls("process", p) = 1
            /\ opts.process_pdfs => Calls("download_pdf", p) = 1
            /\ (~opts.process_pdfs /\ Persisting) => Calls("store", p) = 1
            /\ \A op \in {"parse_pdf", "store", "index_paper"} : Calls(op, p) <= 1
        /\ Cardinality(CallsOf("process")) = Len(papers)

C10_Witness ==
    /\ pc = "returned"
    /\ Len(papers) = MaxPapers
    /\ "raise" \in Outs("download_pdf", papers[1].arxiv_id)
    /\ \A p \in FetchedIds : Calls("process", p) = 1
    /\ "ok" \in Outs("store", papers[MaxPapers].arxiv_id)


\* C7: running the call a second time with the same arguments and the same
\* adapter responses leaves the same set of stored identifiers and the same
\* number of rows as the first run left, at most one row per arxiv_id, every
\* record stored by the first run being stored again in place.
C7_IdempotentRerun ==
    (prev # Null /\ pc \in {"returned", "raised"} /\ trace = prev[1].trace) =>
        /\ StoredIds(db) = StoredIds(prev[1].db)
        /\ Len(db) = Len(prev[1].db)
        /\ \A p \in StoredIds(db) : Cardinality(RowIndex(db, Some(p))) = 1
        /\ results.papers_stored = prev[1].results.papers_stored

C7_Witness ==
    /\ prev # Null /\ pc = "returned" /\ trace = prev[1].trace
    /\ Len(papers) = MaxPapers
    /\ results.papers_stored = MaxPapers
    /\ Len(db) = MaxPapers
    /\ \E p \in FetchedIds : "ok" \in Outs("parse_pdf", p)

\* C8: in every state of the store a row has pdf_processed=True if and only
\* if its parsed-content columns (raw_text, sections, references) are set.
C8_ProcessedIffContent ==
    \A k \in 1..Len(db) :
        (db[k]["pdf_processed"] = Some(TRUE)) <=> (\A c \in ContentColumns : db[k][c] # Null)

\* C11: whenever download_pdf fails for a record of a run with process_pdfs,
\* store_to_db and a session (it returns None or it raises), parse_pdf is not
\* called for that record and the persist stage is still attempted for it,
\* once, before the run goes on to the next record.
C11_DownloadFailureStillPersists ==
    (pc = "returned" /\ opts.process_pdfs /\ Persisting) =>
        \A p \in FetchedIds :
            Outs("download_pdf", p) \cap {"null", "raise"} # {} =>
                /\ Calls("parse_pdf", p) = 0
                /\ Calls("store", p) = 1

\* C12: when parse_pdf fails for a record whose download succeeded (it
\* returns None or it raises), the report's errors list holds an entry of the
\* parse stage naming that record (an entry of the persist stage does not
\* count), and the record goes on to the persist stage, where it is stored
\* without parsed content.
C12_ParseFailureIsReported ==
    pc = "returned" =>
        \A p \in FetchedIds :
            Outs("parse_pdf", p) \cap {"null", "raise"} # {} =>
                /\ \E j \in ErrorsNaming(p) : results.errors[j].kind # "DB error for"
                /\ Persisting => Calls("store", p) = 1
                /\ (Persisting /\ Outs("store", p) = {"ok"}) => StoredMetadataOnly(p)

\* C13: with index_to_opensearch and a client, when indexing a record fails
\* (index_paper returns False or raises), the report's errors list holds an
\* entry of the index stage naming that record (an entry of the persist
\* stage does not count), papers_indexed counts only the records whose
\* indexing returned True, and the run goes on to the next record.
C13_IndexFailureIsReported ==
    (pc = "returned" /\ opts.index_to_opensearch /\ opensearch_client) =>
        /\ results.papers_indexed =
              Cardinality({p \in FetchedIds : "true" \in Outs("index_paper", p)})
        /\ \A p \in FetchedIds :
            Outs("index_paper", p) \cap {"false", "raise"} # {} =>
                /\ \E j \in ErrorsNaming(p) : results.errors[j].kind # "DB error for"
                /\ Calls("process", p) = 1

\* C14: a persist failure for one record (the upsert or the commit raises)
\* is recorded as exactly one errors entry naming that record, leaves
\* papers_stored alone and does not end the run: every record is still taken
\* up, and when a later record reaches the persist stage the shared session
\* is still usable, so that its upsert and commit are refused only when the
\* database rejects its own data.
StoreRaisedFor(p) == Outs("store", p) \cap {"upsert_raise", "commit_raise"} # {}

C14_PersistFailureIsIsolated ==
    /\ (pc = "returned" /\ Persisting) =>
        /\ \A p \in FetchedIds :
            /\ Calls("process", p) = 1
            /\ StoreRaisedFor(p) =>
                /\ Cardinality(ErrorsNaming(p)) = 1
                /\ \A j \in ErrorsNaming(p) : results.errors[j].kind = "DB error for"
        /\ results.papers_stored =
              Cardinality({p \in FetchedIds : Outs("store", p) \cap {"ok", "upsert_none"} # {}})
    /\ (pc = "store" /\ Persisting) => ~session_failed

\* C15: in the batch no pipeline holds a download permit and a parse permit
\* at the same time: the download permits that are out are exactly those of
\* the pipelines inside download_pdf and the parse permits that are out are
\* exactly those of the pipelines inside parse_pdf, so a pipeline waiting for
\* or holding a parse permit has returned its download permit, and a
\* pipeline waiting for a download permit can take one whenever fewer than
\* max_concurrent_downloads pipelines are downloading, whoever is parsing.
TasksAt(l) == {k \in DOMAIN tasks : tasks[k].pc = l}

C15_NoPermitHeldAcrossStages ==
    pc \in {"gather", "batch_returned"} =>
        /\ max_concurrent_downloads - download_semaphore = Cardinality(TasksAt("download_pdf"))
        /\ max_concurrent_parsing - parse_semaphore = Cardinality(TasksAt("parse_pdf"))
        /\ \A k \in TasksAt("acquire_download") :
            Cardinality(TasksAt("download_pdf")) < max_concurrent_downloads =>
                ENABLED AcquireDownload(k)

\* One pipeline downloads on the only download permit while another parses.
C15_Witness ==
    /\ pc = "gather"
    /\ max_concurrent_downloads = 1
    /\ download_semaphore = 0
    /\ \E a, b \in DOMAIN tasks :
        /\ tasks[a].pc = "parse_pdf"
        /\ tasks[b].pc = "download_pdf"
    /\ \E k \in DOMAIN tasks : tasks[k].pc = "acquire_download"

\* C16: _process_pdfs_batch never raises and returns only once every
\* pipeline is done; in what it returns every pipeline that raised has
\* exactly one errors entry naming its record, and every other pipeline is
\* counted by its own outcome (downloaded and parsed, downloaded with a
\* parse failure, or a download failure) and has no errors entry, whatever
\* the pipelines of the other records did.
BatchErrorsNaming(r, id) == {j \in 1..Len(r.errors) : r.errors[j].id = id}

Occurrences(s, id) == Cardinality({j \in 1..Len(s) : s[j] = id})

CountedByOwnOutcome(r, k) ==
    LET id == papers[k].arxiv_id
        t == tasks[k]
    IN  /\ Cardinality(BatchErrorsNaming(r, id)) = (IF t.raised THEN 1 ELSE 0)
        /\ id \in r.parsed_papers <=> (~t.raised /\ t.download_success /\ t.parsed_paper # Null)
        /\ Occurrences(r.parse_failures, id) =
              (IF ~t.raised /\ t.download_success /\ t.parsed_paper = Null THEN 1 ELSE 0)
        /\ Occurrences(r.download_failures, id) =
              (IF ~t.raised /\ ~t.download_success THEN 1 ELSE 0)

C16_NoCrossRecordCancellation ==
    /\ pc # "batch_raised"
    /\ pc = "batch_returned" =>
        /\ batch_results # Null
        /\ \A k \in DOMAIN tasks : tasks[k].pc = "done"
        /\ \A k \in DOMAIN tasks : CountedByOwnOutcome(batch_results[1], k)
        /\ Len(batch_results[1].errors) + batch_results[1].downloaded
              + Len(batch_results[1].download_failures) = Len(tasks)

\* One pipeline raised; its siblings finished with a parse and with a
\* failed download.
C16_Witness ==
    /\ pc = "batch_returned"
    /\ Len(tasks) = MaxBatch
    /\ tasks[1].raised
    /\ Len(batch_results[1].errors) = 1
    /\ papers[2].arxiv_id \in batch_results[1].parsed_papers
    /\ batch_results[1].download_failures = <<papers[MaxBatch].arxiv_id>>

\* C17: the batch counters are written at one point only, after every
\* pipeline is done (nothing is counted while gather is waiting), and under
\* every interleaving of the pipelines the returned downloaded count is the
\* number of records whose download succeeded and the returned parsed count
\* is the number of records whose parse succeeded.
C17_BatchCountsAreExact ==
    /\ pc = "gather" => batch_results = Null
    /\ pc = "batch_returned" =>
        /\ batch_results[1].downloaded =
              Cardinality({k \in DOMAIN tasks : tasks[k].download_success})
        /\ batch_results[1].parsed =
              Cardinality({k \in DOMAIN tasks : tasks[k].parsed_paper # Null})

\* C18: with both limits at least 1 and every adapter call coming back, a
\* pipeline waiting for a download permit is eventually inside download_pdf
\* and one waiting for a parse permit is eventually inside parse_pdf, a
\* batch that was started eventually returns with every pipeline done, and
\* whenever it has returned both semaphores are back at their full values,
\* whichever pipelines got None from download_pdf or an exception from
\* either adapter.
C18_BackpressureWithoutDeadlock ==
    /\ [](pc = "batch_returned" =>
            /\ download_semaphore = max_concurrent_downloads
            /\ parse_semaphore = max_concurrent_parsing
            /\ \A k \in DOMAIN tasks : tasks[k].pc = "done")
    /\ (pc = "gather") ~> (pc = "batch_returned")
    /\ \A k \in 1..MaxBatch :
        /\ (k \in DOMAIN tasks /\ tasks[k].pc = "acquire_download")
              ~> (k \in DOMAIN tasks /\ tasks[k].pc = "download_pdf")
        /\ (k \in DOMAIN tasks /\ tasks[k].pc = "acquire_parse")
              ~> (k \in DOMAIN tasks /\ tasks[k].pc = "parse_pdf")

\* A batch larger than either pool has returned, with a None download and an
\* exception of each adapter among its pipelines, and the permits are back.
C18_Witness ==
    /\ pc = "batch_returned"
    /\ max_concurrent_downloads = 1 /\ max_concurrent_parsing = 1
    /\ Len(tasks) = MaxBatch
    /\ download_semaphore = 1 /\ parse_semaphore = 1
    /\ \E a, b \in DOMAIN tasks :
        /\ tasks[a].raised /\ tasks[a].download_success
        /\ tasks[b].raised /\ ~tasks[b].download_success
    /\ batch_results[1].download_failures # <<>>

\* C19: in a run with process_pdfs=False neither download_pdf nor parse_pdf
\* is ever called or about to be called, pdfs_downloaded and pdfs_parsed stay
\* 0, every record reaches the persist stage with no parsed content, and
\* every record the database accepts is stored metadata-only with
\* pdf_processed=False.
C19_NoContentProcessing ==
    (pc # "idle" /\ ~opts.process_pdfs) =>
        /\ CallsOf("download_pdf") = {} /\ CallsOf("parse_pdf") = {}
        /\ results.pdfs_downloaded = 0 /\ results.pdfs_parsed = 0
        /\ parsed_content = Null
        /\ pc \notin {"download_pdf", "parse_pdf"}
        /\ (pc = "returned" /\ Persisting) => \A p \in FetchedIds : Calls("store", p) = 1
        /\ \A p \in FetchedIds : "ok" \in Outs("store", p) => StoredMetadataOnly(p)

C19_Witness ==
    /\ pc = "returned" /\ ~opts.process_pdfs /\ Persisting
    /\ Len(papers) = MaxPapers
    /\ results.papers_stored = MaxPapers
    /\ \A p \in FetchedIds : Outs("store", p) = {"ok"} /\ StoredMetadataOnly(p)

\* C20: a call with store_to_db=True and no session that fetched at least
\* one record does not return a report like that of a run with persistence
\* off: when it returns, the report's errors list holds an entry about the
\* missing session (an entry other than a record's own download error).
C20_SessionRequired ==
    (pc = "returned" /\ opts.store_to_db /\ ~opts.db_session /\ papers # <<>>) =>
        \E j \in 1..Len(results.errors) : results.errors[j].kind # "Error processing"

\* C21: backfill on a later run.  When a record whose committed row is
\* metadata-only (left by an earlier run) has been downloaded and parsed and
\* its persist stage then succeeds, the same row (same position, no new
\* row) holds the parsed content with pdf_processed=True, its seven metadata
\* columns are what they were, and no other row has changed.
C21_BackfillOnRerun ==
    [][(/\ pc = "store"
        /\ parsed_content # Null
        /\ StoredMetadataOnly(Paper.arxiv_id)
        /\ pc' = "index"
        /\ results'.papers_stored = results.papers_stored + 1)
       => LET id == Paper.arxiv_id
          IN  /\ Len(db') = Len(db)
              /\ RowIndex(db', Some(id)) = RowIndex(db, Some(id))
              /\ \A k \in 1..Len(db) :
                    IF k \in RowIndex(db, Some(id))
                    THEN /\ db'[k]["pdf_processed"] = Some(TRUE)
                         /\ db'[k]["raw_text"] = Some(PdfContent(id).raw_text)
                         /\ db'[k]["sections"] = Some(PdfContent(id).sections)
                         /\ db'[k]["references"] = Some(PdfContent(id).references)
                         /\ \A c \in MetadataColumns : db'[k][c] = db[k][c]
                    ELSE db'[k] = db[k]]_vars

\* A later run has parsed a record that an earlier run left metadata-only
\* and is about to store it.
C21_Witness ==
    /\ pc = "store"
    /\ parsed_content # Null
    /\ StoredMetadataOnly(Paper.arxiv_id)
    /\ Len(db) = MaxPapers

\* C22: the records are processed one after the other: every call of a run,
\* at the moment it is made, is for the current record, comes after that
\* record's body has begun and after every call for an earlier record, and
\* the body of a record begins only after every call made for the records
\* before it; so no call for a record follows a call for a later record.
RecordOps == {"process", "download_pdf", "parse_pdf", "store", "index_paper"}

PositionOf(id) == CHOOSE k \in 1..Len(papers) : papers[k].arxiv_id = id

C22_OneRecordAtATime ==
    (trace # <<>> /\ trace[Len(trace)].op \in RecordOps) =>
        LET last == trace[Len(trace)]
            earlier == {j \in 1..(Len(trace) - 1) : trace[j].op \in RecordOps}
        IN  /\ i \in 1..Len(papers)
            /\ PositionOf(last.id) = i
            /\ \A j \in earlier : PositionOf(trace[j].id) <= i
            /\ last.op = "process" => \A j \in earlier : PositionOf(trace[j].id) < i
            /\ last.op # "process" =>
                  \E j \in earlier : trace[j] = Event("process", last.id, "begin")

\* Two records went through all four stages.
C22_Witness ==
    /\ pc = "returned"
    /\ Len(papers) = MaxPapers
    /\ \A p \in FetchedIds :
        /\ Outs("download_pdf", p) = {"ok"}
        /\ Outs("parse_pdf", p) = {"ok"}
        /\ Outs("store", p) = {"ok"}
        /\ Outs("index_paper", p) = {"true"}

\* C23: the document _index_single_paper and _index_papers_to_opensearch
\* hand to index_paper for a record has as raw_text the first
\* min(len(raw_text), max_text_size) characters of the parsed raw text,
\* never more than max_text_size, and the empty string when the record has
\* no parsed content; its arxiv_id, title, abstract, categories and pdf_url
\* are the record's; and that is the document the index then holds for it.
IsPrefix(t, s, n) == Len(t) = n /\ \A k \in 1..n : t[k] = s[k]

DocumentOf(d, p, c) ==
    /\ \A f \in {"arxiv_id", "title", "abstract", "categories", "pdf_url"} :
          d[f] = ArxivPaper(p)[f]
    /\ Len(d["raw_text"]) <= max_text_size
    /\ IF c = Null
       THEN d["raw_text"] = <<>>
       ELSE LET raw == c[1].raw_text
            IN  IsPrefix(d["raw_text"], raw,
                         IF Len(raw) < max_text_size THEN Len(raw) ELSE max_text_size)

C23_IndexedDocument ==
    [][(/\ pc \in {"index", "index_papers"}
        /\ Len(trace') = Len(trace) + 1
        /\ trace'[Len(trace')].op = "index_paper"
        /\ trace'[Len(trace')].out # "raise")
       => LET paper == IF pc = "index" THEN Paper ELSE papers[i + 1]
              content == IF pc = "index" THEN parsed_content ELSE ParsedContentOf(paper)
          IN  /\ os_last' # Null
              /\ os_last'[1].called
              /\ DocumentOf(os_last'[1].doc, paper.arxiv_id, content)
              /\ trace'[Len(trace')].out = "true" =>
                    /\ paper.arxiv_id \in DOMAIN os_index'
                    /\ DocumentOf(os_index'[paper.arxiv_id], paper.arxiv_id, content)]_vars

\* _index_papers_to_opensearch has returned and the index holds a document
\* whose raw text was cut short and one without raw text.
C23_Witness ==
    /\ pc = "helper_returned"
    /\ count = MaxPapers
    /\ \E a, b \in DOMAIN os_index :
        /\ os_index[a]["raw_text"] # <<>>
        /\ Len(os_index[a]["raw_text"]) = max_text_size
        /\ Len(os_index[a]["raw_text"]) < Len(PdfContent(a).raw_text)
        /\ os_index[b]["raw_text"] = <<>>

\* C25: index_paper never raises: it always returns a boolean, True only
\* when the client answered "created" or "updated", and False without
\* calling the client when the document has no arxiv_id; a document is held
\* by the index under its arxiv_id as document id, so that the index holds
\* one document per identifier however often a paper is indexed.
C25_IndexPaperNeverRaises ==
    /\ os_last # Null =>
        /\ os_last[1].returned \in {Some(TRUE), Some(FALSE)}
        /\ os_last[1].returned = Some(TRUE) =>
              /\ os_last[1].called
              /\ os_last[1].result \in {"created", "updated"}
              /\ os_index[os_last[1].doc["arxiv_id"]] = os_last[1].doc
        /\ "arxiv_id" \notin DOMAIN os_last[1].doc =>
              /\ ~os_last[1].called
              /\ os_last[1].returned = Some(FALSE)
    /\ \A id \in DOMAIN os_index : os_index[id]["arxiv_id"] = id

\* A paper was indexed again: the client answered "updated", and each
\* identifier has its one document.
C25_Witness ==
    /\ os_last # Null
    /\ os_last[1].result = "updated"
    /\ os_last[1].returned = Some(TRUE)
    /\ DOMAIN os_index = 1..MaxPapers


\* C24: a record's metadata is persisted, as a metadata-only row, before its
\* download or parse begins: whenever a persisting run is downloading or
\* parsing a record, the database already holds that record's row.
C24_MetadataStoredBeforeContent ==
    (pc \in {"download_pdf", "parse_pdf"} /\ Persisting) =>
        Cardinality(RowsOf(db, Paper.arxiv_id)) = 1


\* C26: in every returned report pdfs_parsed <= pdfs_downloaded <=
\* papers_fetched, papers_stored <= papers_fetched, papers_indexed <=
\* papers_fetched, and errors has at most papers_fetched entries, at most one
\* naming each record.
C26_CountersConsistent ==
    pc = "returned" =>
        /\ results.pdfs_parsed <= results.pdfs_downloaded
        /\ results.pdfs_downloaded <= results.papers_fetched
        /\ results.papers_stored <= results.papers_fetched
        /\ results.papers_indexed <= results.papers_fetched
        /\ Len(results.errors) <= results.papers_fetched
        /\ \A p \in FetchedIds : Cardinality(ErrorsNaming(p)) <= 1

C26_Witness ==
    /\ pc = "returned"
    /\ results.papers_fetched = MaxPapers
    /\ Len(results.errors) = MaxPapers
    /\ results.pdfs_downloaded = 1
    /\ results.pdfs_parsed = 0
    /\ \E j \in 1..Len(results.errors) : results.errors[j].kind = "DB error for"
    /\ \E j \in 1..Len(results.errors) : results.errors[j].kind = "Error processing"


\* C27: papers_stored is incremented for a record only when its upsert
\* returned a stored record and the commit succeeded: in every returned
\* report it is at most the number of store calls that ended so, and a record
\* whose upsert returned null is not among the counted.
C27_StoredCountsStoredRecords ==
    pc = "returned" =>
        results.papers_stored <= Cardinality({j \in CallsOf("store") : trace[j].out = "ok"})


\* C28: the result of _process_pdfs_batch partitions its input.  Every paper
\* is in exactly one of three groups of the result: counted as downloaded
\* (then it is in parsed_papers or in parse_failures, not both), listed in
\* download_failures, or named by an errors entry; no list names a paper
\* twice; downloaded + len(download_failures) + len(errors) = len(papers) and
\* parsed + len(parse_failures) = downloaded; parsed_papers holds as many
\* entries as parsed counts, each for a record whose pipeline returned with
\* the download and the parse both succeeded.
GroupsOf(r, id) ==
    {g \in {"downloaded", "download_failures", "errors"} :
        CASE g = "downloaded" -> id \in r.parsed_papers \/ Occurrences(r.parse_failures, id) > 0
          [] g = "download_failures" -> Occurrences(r.download_failures, id) > 0
          [] g = "errors" -> BatchErrorsNaming(r, id) # {}}

C28_BatchResultPartitionsInput ==
    pc = "batch_returned" =>
        LET r == batch_results[1]
        IN  /\ \A k \in DOMAIN papers :
                LET id == papers[k].arxiv_id
                IN  /\ Cardinality(GroupsOf(r, id)) = 1
                    /\ ~(id \in r.parsed_papers /\ Occurrences(r.parse_failures, id) > 0)
                    /\ Occurrences(r.parse_failures, id) <= 1
                    /\ Occurrences(r.download_failures, id) <= 1
                    /\ Cardinality(BatchErrorsNaming(r, id)) <= 1
            /\ r.downloaded + Len(r.download_failures) + Len(r.errors) = Len(papers)
            /\ r.parsed + Len(r.parse_failures) = r.downloaded
            /\ r.parsed = Cardinality(r.parsed_papers)
            /\ \A id \in r.parsed_papers :
                \E k \in DOMAIN papers :
                    /\ papers[k].arxiv_id = id
                    /\ ~tasks[k].raised
                    /\ tasks[k].download_success
                    /\ tasks[k].parsed_paper # Null

\* One pipeline raised in its parse, one parsed, one returned without content.
C28_Witness ==
    /\ pc = "batch_returned"
    /\ Len(papers) = MaxBatch
    /\ tasks[1].raised /\ tasks[1].download_success
    /\ GroupsOf(batch_results[1], papers[1].arxiv_id) = {"errors"}
    /\ batch_results[1].parse_failures = <<papers[2].arxiv_id>>
    /\ batch_results[1].parsed_papers = {papers[MaxBatch].arxiv_id}
    /\ batch_results[1].download_failures = <<>>


\* C29: _store_papers_to_db is all-or-nothing at its commit.  An upsert that
\* raises for one paper leaves the session usable for the papers after it;
\* every paper is attempted once and the one commit comes after them, the
\* table being untouched until then; when the commit fails nothing of the
\* batch is persisted (the table stays as it was), nothing is left pending
\* and 0 is returned; otherwise the table holds what the upserts wrote and
\* the number of papers whose upsert returned a stored record is returned.
BatchStored == {p \in FetchedIds : Outs("upsert", p) = {"ok"}}

C29_BatchStoreAllOrNothing ==
    /\ [](pc = "store_papers" => ~session_failed /\ CallsOf("commit") = {})
    /\ [][(pc = "store_papers" /\ pc' = "store_papers") => db' = db]_vars
    /\ [][(pc = "store_papers" /\ pc' = "helper_returned") =>
            /\ \A p \in FetchedIds : Calls("upsert", p) = 1
            /\ IF trace'[Len(trace')].out = "raise"
               THEN /\ count' = 0
                    /\ db' = db
                    /\ session' = db
               ELSE /\ count' = Cardinality(BatchStored)
                    /\ db' = session
                    /\ \A p \in BatchStored : Cardinality(RowsOf(db', p)) = 1]_vars


\* C30: every session get_session hands out is closed exactly once, when
\* its context is left and not before; when an exception leaves the context
\* the session is rolled back, then closed, and the caller gets the
\* exception; leaving the context, either way, keeps every committed row;
\* get_session before startup raises RuntimeError and makes no session.
InContext == caller \in {"in_pipeline", "in_request"}

C30_SessionClosedOnce ==
    /\ [](/\ InContext => session_log = <<"create">>
          /\ caller = "exited" => session_log = <<"create", "close">>
          /\ caller = "propagated" =>
                /\ session_log = <<"create", "rollback", "close">>
                /\ exc # Null
          /\ caller = "runtime_error" =>
                /\ exc = Some([type |-> "RuntimeError", cause |-> "Database not initialized"])
                /\ session_log = <<>>
          /\ ~session_factory => session_log = <<>>)
    /\ [][/\ (InContext /\ ~InContext') => db' = db
          /\ (caller = "in_pipeline" /\ caller' = "propagated") => exc' = exc
          /\ caller' = "runtime_error" => session_log' = session_log]_vars

\* A handler committed one paper, wrote another without committing and
\* raised: the first is kept, the second is gone, the session was rolled
\* back and closed.
C30_Witness ==
    /\ caller = "propagated"
    /\ session_log = <<"create", "rollback", "close">>
    /\ \E j \in 1..Len(trace) :
        /\ trace[j].op = "handler_write" /\ trace[j].out = "commit"
        /\ Cardinality(RowsOf(db, trace[j].id)) = 1
    /\ \E j \in 1..Len(trace) :
        /\ trace[j].op = "handler_write" /\ trace[j].out = "pending"
        /\ RowsOf(db, trace[j].id) = {}

====
